---- MODULE Spec2Model ----
(***************************************************************************)
(* Fitness Studio Booking API: the request handlers of app/routers and     *)
(* app/dependencies as a state machine over the relational store.          *)
(*                                                                         *)
(* Every request is served by a worker thread with a database session of   *)
(* its own (app/dependencies.py get_db, app/db/session.py SessionLocal).   *)
(* A handler is a sequence of steps, one per statement that touches the    *)
(* store or the clock; steps of different requests interleave freely.      *)
(* The session is opened with no isolation level and no row lock, and the  *)
(* default store (sqlite through pysqlite) opens its transaction at the    *)
(* first write, so the SELECTs of a handler are separate reads and the     *)
(* flush at commit (UPDATE classes, INSERT bookings) is one atomic write.  *)
(*                                                                         *)
(* Time is counted in units of TimeUnitMinutes minutes.  An instant is an  *)
(* integer number of units on the UTC axis; a datetime is a wall reading   *)
(* with an optional zone offset, as Python's datetime is.                  *)
(***************************************************************************)
EXTENDS Integers, Sequences, FiniteSets, TLC

VARIABLES users, classes, bookings, capacity, now, req

vars == <<users, classes, bookings, capacity, now, req>>

---------------------------------------------------------------------------
(* Bounds of the model *)

NumThreads == 2
NumUsers == 2
MaxClasses == 1
MaxCap == 2
MaxTime == 2

(* Program constants *)

IST_OFFSET_MINUTES == 330
ACCESS_TOKEN_EXPIRE_MINUTES == 60
MIN_SLOTS == 1
MAX_SLOTS == 100

RECURSIVE GCD(_, _)
GCD(a, b) == IF b = 0 THEN a ELSE GCD(b, a % b)

(* the coarsest unit in which the zone offset and the token lifetime are *)
(* both whole                                                            *)
TimeUnitMinutes == GCD(IST_OFFSET_MINUTES, ACCESS_TOKEN_EXPIRE_MINUTES)

IST_OFFSET == IST_OFFSET_MINUTES \div TimeUnitMinutes

Threads == 1..NumThreads

---------------------------------------------------------------------------
(* app/utils/time.py *)

NAIVE == <<>>

Aware(off) == <<off>>

DateTime(w, tz) == [wall |-> w, tz |-> tz]

IST == Aware(IST_OFFSET)

UTC == Aware(0)

(* the instant an aware datetime denotes: datetime.__lt__ of two aware *)
(* datetimes compares these *)
Instant(dt) == dt.wall - dt.tz[1]

Before(a, b) == Instant(a) < Instant(b)

now_ist == DateTime(now + IST_OFFSET, IST)

(* normalize_to_ist with a value without offset taken for a UTC one *)
normalize_to_ist_naive_as_utc(dt) ==
    IF dt.tz = NAIVE
    THEN DateTime(dt.wall + IST_OFFSET, IST)
    ELSE DateTime(dt.wall - dt.tz[1] + IST_OFFSET, IST)

(* normalize_to_ist with every clock reading taken for a UTC one *)
normalize_to_ist_offset_ignored(dt) == DateTime(dt.wall + IST_OFFSET, IST)

normalize_to_ist(dt) ==
    IF dt.tz = NAIVE
    THEN DateTime(dt.wall, IST)
    ELSE DateTime(dt.wall - dt.tz[1] + IST_OFFSET, IST)

(* is_past_in_ist with the comparison not strict *)
is_past_in_ist_inclusive(dt) == ~Before(now_ist, dt)

is_past_in_ist(dt) == Before(dt, now_ist)

(* DateTime(timezone=True) on sqlite keeps the clock fields and drops the *)
(* offset: a stored value is read back naive *)
StoredDateTime(dt) == DateTime(dt.wall, NAIVE)

---------------------------------------------------------------------------
(* app/core/jwt.py, app/dependencies.py *)

TokenTTL == ACCESS_TOKEN_EXPIRE_MINUTES \div TimeUnitMinutes

(* A presented Authorization header: its scheme ("none" when the header is *)
(* absent), whether the credential decodes under the secret key, and the   *)
(* sub and exp claims of its payload.                                      *)
Token(scheme, sig, sub, exp) == [scheme |-> scheme, sig |-> sig, sub |-> sub, exp |-> exp]

(* jwt.decode verifies the signature and rejects a token whose exp is over *)
decode_token(token) == token.sig /\ token.exp >= now

Response(status, detail) == [status |-> status, detail |-> detail]

(* current_user with the token's payload read without verification *)
current_user_unverified(token) ==
    IF token.scheme # "bearer"
    THEN [user |-> 0, resp |-> Response(401, "Not authenticated")]
    ELSE IF token.sub \notin 1..Len(users)
    THEN [user |-> 0, resp |-> Response(401, "User not found")]
    ELSE [user |-> token.sub, resp |-> Response(0, "")]

(* the user row the token resolves to, or the 401 the dependency raises *)
current_user(token) ==
    IF token.scheme # "bearer"
    THEN [user |-> 0, resp |-> Response(401, "Not authenticated")]
    ELSE IF ~decode_token(token)
    THEN [user |-> 0, resp |-> Response(401, "Invalid or expired token")]
    ELSE IF token.sub \notin 1..Len(users)
    THEN [user |-> 0, resp |-> Response(401, "User not found")]
    ELSE [user |-> token.sub, resp |-> Response(0, "")]

---------------------------------------------------------------------------
(* The requests in service *)

NoToken == Token("none", FALSE, 0, 0)

NoBody ==
    [class_id |-> 0, client_email |-> 0, date_time |-> DateTime(0, NAIVE), available_slots |-> 0,
     email |-> 0, password |-> 0]

BookingCreate(class_id, client_email) ==
    [NoBody EXCEPT !.class_id = class_id, !.client_email = client_email]

ClassCreate(date_time, available_slots) ==
    [NoBody EXCEPT !.date_time = date_time, !.available_slots = available_slots]

UserCreate(email, password) ==
    [NoBody EXCEPT !.email = email, !.password = password]

Login(email, password) ==
    [NoBody EXCEPT !.email = email, !.password = password]

(* out is the id of the row a 201 returns, access_token the credential a *)
(* login returns, items the rows a listing returns                       *)
Idle ==
    [kind |-> "none", pc |-> "idle", token |-> NoToken, body |-> NoBody,
     user |-> 0, klass |-> <<>>,
     resp |-> Response(0, ""), out |-> 0, access_token |-> NoToken, items |-> <<>>]

Free(t) == req[t].pc \in {"idle", "done"}

(* the response is sent and the session is closed: the loaded rows are gone *)
Finish(r, resp, out) ==
    [r EXCEPT !.pc = "done", !.klass = <<>>, !.resp = resp, !.out = out]

FirstStep(kind) ==
    CASE kind = "book" -> "get"
      [] kind = "create_class" -> "create"
      [] kind = "list" -> "list"

(* the dependency with a request that resolves to no user let through as *)
(* the first user                                                        *)
get_current_user_anonymous(t, kind, token, body) ==
    /\ Free(t)
    /\ LET cu == current_user(token)
           r == [Idle EXCEPT !.kind = kind, !.token = token, !.body = body]
       IN  req' = [req EXCEPT ![t] =
                      [r EXCEPT !.pc = FirstStep(kind),
                                !.user = IF cu.user = 0 THEN 1 ELSE cu.user]]
    /\ UNCHANGED <<users, classes, bookings, capacity, now>>

(* A request arrives at a free worker; the framework resolves the handler's *)
(* dependencies (get_db, get_current_user) before the handler body runs.    *)
get_current_user(t, kind, token, body) ==
    /\ Free(t)
    /\ LET cu == current_user(token)
           r == [Idle EXCEPT !.kind = kind, !.token = token, !.body = body]
       IN  req' = [req EXCEPT ![t] =
                      IF cu.user = 0
                      THEN Finish(r, cu.resp, 0)
                      ELSE [r EXCEPT !.pc = FirstStep(kind), !.user = cu.user]]
    /\ UNCHANGED <<users, classes, bookings, capacity, now>>

---------------------------------------------------------------------------
(* app/routers/classes.py *)

FitnessClass(date_time, available_slots) ==
    [date_time |-> StoredDateTime(date_time), available_slots |-> available_slots]

(* create_class without the rejection of a past time *)
create_class_unchecked(t) ==
    /\ req[t].pc = "create"
    /\ LET class_in == req[t].body
           dt_ist == normalize_to_ist(class_in.date_time)
       IN  /\ classes' = Append(classes, FitnessClass(dt_ist, class_in.available_slots))
           /\ capacity' = Append(capacity, class_in.available_slots)
           /\ req' = [req EXCEPT ![t] = Finish(@, Response(201, ""), Len(classes) + 1)]
    /\ UNCHANGED <<users, bookings, now>>

create_class(t) ==
    /\ req[t].pc = "create"
    /\ LET class_in == req[t].body
           dt_ist == normalize_to_ist(class_in.date_time)
       IN  IF is_past_in_ist(dt_ist)
           THEN /\ req' = [req EXCEPT ![t] =
                      Finish(@, Response(400, "Class time cannot be in the past"), 0)]
                /\ UNCHANGED <<classes, capacity>>
           ELSE /\ classes' = Append(classes, FitnessClass(dt_ist, class_in.available_slots))
                /\ capacity' = Append(capacity, class_in.available_slots)
                /\ req' = [req EXCEPT ![t] = Finish(@, Response(201, ""), Len(classes) + 1)]
    /\ UNCHANGED <<users, bookings, now>>

---------------------------------------------------------------------------
(* app/routers/bookings.py *)

Booking(user_id, class_id, client_email) ==
    [user_id |-> user_id, class_id |-> class_id, client_email |-> client_email,
     created_at |-> now]

(* line 33: the class row is loaded into the session *)
book_class_get(t) ==
    /\ req[t].pc = "get"
    /\ LET id == req[t].body.class_id
       IN  req' = [req EXCEPT ![t] =
                      IF id \notin 1..Len(classes)
                      THEN Finish(@, Response(404, "Class not found"), 0)
                      ELSE [@ EXCEPT !.pc = "check", !.klass = <<classes[id]>>]]
    /\ UNCHANGED <<users, classes, bookings, capacity, now>>

(* book_class_check without the past check *)
book_class_check_past_skipped(t) ==
    /\ req[t].pc = "check"
    /\ LET klass == req[t].klass[1]
       IN  req' = [req EXCEPT ![t] =
                      IF klass.available_slots <= 0
                      THEN Finish(@, Response(409, "No available slots"), 0)
                      ELSE [@ EXCEPT !.pc = "existing"]]
    /\ UNCHANGED <<users, classes, bookings, capacity, now>>

(* book_class_check with the capacity check ahead of the past check *)
book_class_check_slots_first(t) ==
    /\ req[t].pc = "check"
    /\ LET klass == req[t].klass[1]
       IN  req' = [req EXCEPT ![t] =
                      IF klass.available_slots <= 0
                      THEN Finish(@, Response(409, "No available slots"), 0)
                      ELSE IF Before(normalize_to_ist(klass.date_time), now_ist)
                      THEN Finish(@, Response(400, "Cannot book a past class"), 0)
                      ELSE [@ EXCEPT !.pc = "existing"]]
    /\ UNCHANGED <<users, classes, bookings, capacity, now>>

(* lines 38-42: the checks on the loaded row against the clock *)
book_class_check(t) ==
    /\ req[t].pc = "check"
    /\ LET klass == req[t].klass[1]
       IN  req' = [req EXCEPT ![t] =
                      IF Before(normalize_to_ist(klass.date_time), now_ist)
                      THEN Finish(@, Response(400, "Cannot book a past class"), 0)
                      ELSE IF klass.available_slots <= 0
                      THEN Finish(@, Response(409, "No available slots"), 0)
                      ELSE [@ EXCEPT !.pc = "existing"]]
    /\ UNCHANGED <<users, classes, bookings, capacity, now>>

HasBooking(user_id, class_id) ==
    \E i \in 1..Len(bookings) :
        bookings[i].user_id = user_id /\ bookings[i].class_id = class_id

(* book_class_existing with the duplicate looked up by attendee address *)
book_class_existing_by_email(t) ==
    /\ req[t].pc = "existing"
    /\ req' = [req EXCEPT ![t] =
                  IF \E i \in 1..Len(bookings) :
                        /\ bookings[i].client_email = @.body.client_email
                        /\ bookings[i].class_id = @.body.class_id
                  THEN Finish(@, Response(409, "Already booked for this class"), 0)
                  ELSE [@ EXCEPT !.pc = "commit"]]
    /\ UNCHANGED <<users, classes, bookings, capacity, now>>

(* book_class_existing with the duplicate lookup left out *)
book_class_existing_skipped(t) ==
    /\ req[t].pc = "existing"
    /\ req' = [req EXCEPT ![t].pc = "commit"]
    /\ UNCHANGED <<users, classes, bookings, capacity, now>>

(* lines 44-50: the duplicate lookup *)
book_class_existing(t) ==
    /\ req[t].pc = "existing"
    /\ req' = [req EXCEPT ![t] =
                  IF HasBooking(@.user, @.body.class_id)
                  THEN Finish(@, Response(409, "Already booked for this class"), 0)
                  ELSE [@ EXCEPT !.pc = "commit"]]
    /\ UNCHANGED <<users, classes, bookings, capacity, now>>

(* the bookings table without its unique constraint *)
uq_booking_user_class_dropped(row) == TRUE

(* models.py uq_booking_user_class: the INSERT is refused when the pair is *)
(* already in the table *)
uq_booking_user_class(row) == ~HasBooking(row.user_id, row.class_id)

(* lines 52-63: the flush writes the value computed from the loaded row and *)
(* inserts the booking in one transaction; a refused INSERT raises           *)
(* IntegrityError out of the handler, the transaction is rolled back when    *)
(* the session closes and the framework answers 500.                         *)
book_class_commit(t) ==
    /\ req[t].pc = "commit"
    /\ LET id == req[t].body.class_id
           klass == req[t].klass[1]
           booking == Booking(req[t].user, id, req[t].body.client_email)
       IN  IF uq_booking_user_class(booking)
           THEN /\ classes' = [classes EXCEPT ![id].available_slots = klass.available_slots - 1]
                /\ bookings' = Append(bookings, booking)
                /\ req' = [req EXCEPT ![t] = Finish(@, Response(201, ""), Len(bookings) + 1)]
           ELSE /\ req' = [req EXCEPT ![t] = Finish(@, Response(500, "Internal Server Error"), 0)]
                /\ UNCHANGED <<classes, bookings>>
    /\ UNCHANGED <<users, capacity, now>>

(* the ids of the rows filter(Booking.user_id == user_id) selects *)
BookingsOfUser(user_id) == {i \in 1..Len(bookings) : bookings[i].user_id = user_id}

(* order_by(Booking.created_at.desc()): the orders in which the store may  *)
(* return the rows ids; rows of equal created_at come in any order         *)
order_by_created_at_desc(ids) ==
    {s \in [1..Cardinality(ids) -> ids] :
        /\ \A i, j \in 1..Cardinality(ids) : s[i] = s[j] => i = j
        /\ \A i, j \in 1..Cardinality(ids) :
              i < j => bookings[s[i]].created_at >= bookings[s[j]].created_at}

(* list_my_bookings without the filter on the user *)
list_my_bookings_unfiltered(t) ==
    /\ req[t].pc = "list"
    /\ \E items \in order_by_created_at_desc(1..Len(bookings)) :
          req' = [req EXCEPT ![t] = [Finish(@, Response(200, ""), 0) EXCEPT !.items = items]]
    /\ UNCHANGED <<users, classes, bookings, capacity, now>>

(* lines 66-78 *)
list_my_bookings(t) ==
    /\ req[t].pc = "list"
    /\ \E items \in order_by_created_at_desc(BookingsOfUser(req[t].user)) :
          req' = [req EXCEPT ![t] = [Finish(@, Response(200, ""), 0) EXCEPT !.items = items]]
    /\ UNCHANGED <<users, classes, bookings, capacity, now>>

---------------------------------------------------------------------------
(* app/core/security.py, app/routers/auth.py *)

(* the stored digest is not the password *)
get_password_hash(password) == <<"bcrypt", password>>

(* the digest is the one the password hashes to *)
verify_password(plain_password, hashed_password) ==
    hashed_password = get_password_hash(plain_password)

(* a row of the users table; addresses and passwords are numbered *)
User(email, password) == [email |-> email, hashed_password |-> get_password_hash(password)]

(* the rows db.query(User).filter(User.email == email) selects, by id *)
UsersByEmail(email) == {i \in 1..Len(users) : users[i].email = email}

(* the first row of a query, 0 for None *)
first(ids) == IF ids = {} THEN 0 ELSE CHOOSE i \in ids : \A j \in ids : i <= j

(* signup without the lookup of the address *)
signup_lookup_skipped(t) ==
    /\ req[t].pc = "lookup"
    /\ req' = [req EXCEPT ![t].pc = "insert"]
    /\ UNCHANGED <<users, classes, bookings, capacity, now>>

(* signup, line 27-29: the lookup of the address *)
signup_lookup(t) ==
    /\ req[t].pc = "lookup"
    /\ LET existing == first(UsersByEmail(req[t].body.email))
       IN  req' = [req EXCEPT ![t] =
                      IF existing # 0
                      THEN Finish(@, Response(409, "Email already registered"), 0)
                      ELSE [@ EXCEPT !.pc = "insert"]]
    /\ UNCHANGED <<users, classes, bookings, capacity, now>>

(* models.py User.email unique=True: the INSERT is refused when the address *)
(* is already in the table *)
uq_users_email(row) == UsersByEmail(row.email) = {}

(* signup, lines 31-39: the INSERT; a refused INSERT raises IntegrityError *)
(* out of the handler and the framework answers 500                        *)
signup_commit(t) ==
    /\ req[t].pc = "insert"
    /\ LET user == User(req[t].body.email, req[t].body.password)
       IN  IF uq_users_email(user)
           THEN /\ users' = Append(users, user)
                /\ req' = [req EXCEPT ![t] = Finish(@, Response(201, ""), Len(users) + 1)]
           ELSE /\ req' = [req EXCEPT ![t] = Finish(@, Response(500, "Internal Server Error"), 0)]
                /\ UNCHANGED users
    /\ UNCHANGED <<classes, bookings, capacity, now>>

(* create_access_token with the lifetime subtracted from the clock reading *)
create_access_token_expired(subject) == Token("bearer", TRUE, subject, now - TokenTTL)

(* jwt.py create_access_token: a signed bearer credential of the subject *)
(* that expires TokenTTL after the clock reading                         *)
create_access_token(subject) == Token("bearer", TRUE, subject, now + TokenTTL)

(* login, lines 49-54 *)
login(t) ==
    /\ req[t].pc = "login"
    /\ LET user == first(UsersByEmail(req[t].body.email))
       IN  req' = [req EXCEPT ![t] =
                      IF user = 0 \/ ~verify_password(@.body.password, users[user].hashed_password)
                      THEN Finish(@, Response(401, "Invalid credentials"), 0)
                      ELSE [Finish(@, Response(200, ""), 0)
                               EXCEPT !.access_token = create_access_token(user)]]
    /\ UNCHANGED <<users, classes, bookings, capacity, now>>

---------------------------------------------------------------------------
(* The environment: the clock and the clients *)

Tick ==
    /\ now < MaxTime
    /\ now' = now + 1
    /\ UNCHANGED <<users, classes, bookings, capacity, req>>

(* the credentials a client may present *)
TokenInputs ==
    {NoToken,
     Token("basic", TRUE, 1, MaxTime + TokenTTL),
     Token("bearer", FALSE, 1, MaxTime + TokenTTL),
     Token("bearer", TRUE, 1, 1)}
    \cup {Token("bearer", TRUE, u, MaxTime + TokenTTL) : u \in 1..NumUsers + 1}

(* scheduled times a client may send: without offset, in UTC and in IST *)
DateInputs ==
    {DateTime(IST_OFFSET - 1, NAIVE), DateTime(IST_OFFSET + 1, NAIVE),
     DateTime(1, UTC), DateTime(IST_OFFSET + MaxTime, IST)}

(* attendee addresses a client may send *)
ClientEmails == {1}

Creating == Cardinality({t \in Threads : req[t].pc = "create"})

PostClassesOf(t, sizes) ==
    /\ Len(classes) + Creating < MaxClasses
    /\ \E token \in TokenInputs, dt \in DateInputs, n \in sizes :
          get_current_user(t, "create_class", token, ClassCreate(dt, n))

PostClasses(t) == PostClassesOf(t, MIN_SLOTS..MaxCap)

PostBook(t) ==
    \E token \in TokenInputs, id \in 1..MaxClasses + 1, e \in ClientEmails :
        get_current_user(t, "book", token, BookingCreate(id, e))

GetBookings(t) ==
    \E token \in TokenInputs : get_current_user(t, "list", token, NoBody)

---------------------------------------------------------------------------
(* The booking service with NumUsers registered users and no classes yet *)

InitBooking ==
    /\ users = [i \in 1..NumUsers |-> User(i, i)]
    /\ classes = <<>>
    /\ bookings = <<>>
    /\ capacity = <<>>
    /\ now = 0
    /\ req = [t \in Threads |-> Idle]

NextBooking ==
    \/ Tick
    \/ \E t \in Threads :
          \/ PostClasses(t)
          \/ PostBook(t)
          \/ create_class(t)
          \/ book_class_get(t)
          \/ book_class_check(t)
          \/ book_class_existing(t)
          \/ book_class_commit(t)

SpecBooking == InitBooking /\ [][NextBooking]_vars

---------------------------------------------------------------------------
(* One worker: requests are served one after another, and the clock does *)
(* not move while a request is in service.  Classes are created with the *)
(* smallest capacities and with the largest the schema admits.           *)

NextSerial ==
    \/ Free(1) /\ Tick
    \/ PostClassesOf(1, (MIN_SLOTS..MaxCap) \cup {MAX_SLOTS})
    \/ PostBook(1)
    \/ create_class(1)
    \/ book_class_get(1)
    \/ book_class_check(1)
    \/ book_class_existing(1)
    \/ book_class_commit(1)
    \/ GetBookings(1)
    \/ list_my_bookings(1)

SpecSerial == InitBooking /\ [][NextSerial]_vars

---------------------------------------------------------------------------
(* Contention for one class: NumUsers + 1 registered users, one class of  *)
(* MaxCap + 1 slots scheduled at the end of the modelled time, and clients *)
(* that send well-formed booking requests for it                           *)

Contenders == NumUsers + 1

InitContention ==
    /\ users = [i \in 1..Contenders |-> User(i, i)]
    /\ classes = <<FitnessClass(DateTime(IST_OFFSET + MaxTime, IST), MaxCap + 1)>>
    /\ capacity = <<MaxCap + 1>>
    /\ bookings = <<>>
    /\ now = 0
    /\ req = [t \in Threads |-> Idle]

PostBookContended(t) ==
    \E u \in 1..Contenders :
        get_current_user(t, "book", Token("bearer", TRUE, u, MaxTime + TokenTTL),
                         BookingCreate(1, 1))

NextContention ==
    \E t \in Threads :
        \/ PostBookContended(t)
        \/ book_class_get(t)
        \/ book_class_check(t)
        \/ book_class_existing(t)
        \/ book_class_commit(t)

SpecContention == InitContention /\ [][NextContention]_vars

---------------------------------------------------------------------------
(* Listing: one worker, NumUsers registered users who book and list, and *)
(* MaxClasses + 1 classes of MaxCap slots scheduled at the end of the    *)
(* modelled time                                                         *)

ListedClasses == MaxClasses + 1

UserToken(u) == Token("bearer", TRUE, u, MaxTime + TokenTTL)

InitListing ==
    /\ users = [i \in 1..NumUsers |-> User(i, i)]
    /\ classes = [c \in 1..ListedClasses |->
                     FitnessClass(DateTime(IST_OFFSET + MaxTime, IST), MaxCap)]
    /\ capacity = [c \in 1..ListedClasses |-> MaxCap]
    /\ bookings = <<>>
    /\ now = 0
    /\ req = [t \in Threads |-> Idle]

NextListing ==
    \/ Free(1) /\ Tick
    \/ \E u \in 1..NumUsers, c \in 1..ListedClasses :
          get_current_user(1, "book", UserToken(u), BookingCreate(c, u))
    \/ book_class_get(1)
    \/ book_class_check(1)
    \/ book_class_existing(1)
    \/ book_class_commit(1)
    \/ \E u \in 1..NumUsers : get_current_user(1, "list", UserToken(u), NoBody)
    \/ list_my_bookings(1)

SpecListing == InitListing /\ [][NextListing]_vars

---------------------------------------------------------------------------
(* Scheduled times: one worker, and clients that create classes at every *)
(* instant from one unit before the start of the modelled time to one    *)
(* unit after its end, written without offset and in zones west of UTC,  *)
(* at UTC, at IST and east of IST, and then book them                    *)

Zones == {UTC, IST, Aware(-IST_OFFSET), Aware(IST_OFFSET + 1)}

TimeInputs ==
    {DateTime(i + IST_OFFSET, NAIVE) : i \in -1..MaxTime + 1}
    \cup {DateTime(i + z[1], z) : i \in -1..MaxTime + 1, z \in Zones}

NextTime ==
    \/ Free(1) /\ Tick
    \/ /\ Len(classes) + Creating < MaxClasses
       /\ \E u \in 1..NumUsers, dt \in TimeInputs :
             get_current_user(1, "create_class", UserToken(u), ClassCreate(dt, MIN_SLOTS))
    \/ create_class(1)
    \/ \E u \in 1..NumUsers :
          get_current_user(1, "book", UserToken(u), BookingCreate(MaxClasses, u))
    \/ book_class_get(1)
    \/ book_class_check(1)
    \/ book_class_existing(1)
    \/ book_class_commit(1)

SpecTime == InitBooking /\ [][NextTime]_vars

---------------------------------------------------------------------------
(* Attendees: the contended class, booked by registered users on behalf *)
(* of attendees whose addresses are chosen freely                       *)

AttendeeEmails == 1..NumUsers

PostBookAttendee(t) ==
    \E u \in 1..Contenders, e \in AttendeeEmails :
        get_current_user(t, "book", UserToken(u), BookingCreate(1, e))

NextAttendee ==
    \E t \in Threads :
        \/ PostBookAttendee(t)
        \/ book_class_get(t)
        \/ book_class_check(t)
        \/ book_class_existing(t)
        \/ book_class_commit(t)

SpecAttendee == InitContention /\ [][NextAttendee]_vars

---------------------------------------------------------------------------
(* app/main.py: the application as it is assembled.  The users table starts *)
(* empty; clients sign up, log in and present the credentials the logins    *)
(* returned; a request for a path of a router the application does not      *)
(* include is answered 404 by the framework before any dependency runs.     *)

(* main.py lines 41-42 *)
include_router == {"auth", "classes"}

(* the router module that declares the route of a request *)
RouterOf(kind) ==
    CASE kind \in {"signup", "login"} -> "auth"
      [] kind = "create_class" -> "classes"
      [] kind \in {"book", "list"} -> "bookings"

NotRouted == Response(404, "Not Found")

(* addresses and passwords a client may send *)
Emails == 1..NumUsers

Passwords == 1..NumUsers

Registering == Cardinality({t \in Threads : req[t].pc \in {"lookup", "insert"}})

(* the credentials the clients hold: none, or one a login has returned *)
HeldTokens == {NoToken} \cup {req[t].access_token : t \in Threads}

(* the request is handed to the route's dependencies and handler, or refused *)
app(t, kind, token, body) ==
    IF RouterOf(kind) \notin include_router
    THEN /\ Free(t)
         /\ req' = [req EXCEPT ![t] =
                       Finish([Idle EXCEPT !.kind = kind, !.token = token, !.body = body],
                              NotRouted, 0)]
         /\ UNCHANGED <<users, classes, bookings, capacity, now>>
    ELSE IF kind \in {"signup", "login"}
    THEN /\ Free(t)
         /\ req' = [req EXCEPT ![t] =
                       [Idle EXCEPT !.kind = kind, !.body = body,
                                    !.pc = IF kind = "signup" THEN "lookup" ELSE "login"]]
         /\ UNCHANGED <<users, classes, bookings, capacity, now>>
    ELSE get_current_user(t, kind, token, body)

PostSignup(t) ==
    \E e \in Emails, p \in Passwords :
        /\ Len(users) + Registering < NumUsers \/ UsersByEmail(e) # {}
        /\ app(t, "signup", NoToken, UserCreate(e, p))

PostLogin(t) ==
    \E e \in Emails, p \in Passwords : app(t, "login", NoToken, Login(e, p))

AppPostClasses(t) ==
    /\ Len(classes) + Creating < MaxClasses
    /\ \E token \in HeldTokens, dt \in DateInputs :
          app(t, "create_class", token, ClassCreate(dt, MIN_SLOTS))

AppPostBook(t) ==
    \E token \in HeldTokens, id \in 1..MaxClasses :
        app(t, "book", token, BookingCreate(id, 1))

AppGetBookings(t) ==
    \E token \in HeldTokens : app(t, "list", token, NoBody)

InitApp ==
    /\ users = <<>>
    /\ classes = <<>>
    /\ bookings = <<>>
    /\ capacity = <<>>
    /\ now = 0
    /\ req = [t \in Threads |-> Idle]

NextApp ==
    \/ Tick
    \/ \E t \in Threads :
          \/ PostSignup(t)
          \/ signup_lookup(t)
          \/ signup_commit(t)
          \/ PostLogin(t)
          \/ login(t)
          \/ AppPostClasses(t)
          \/ create_class(t)
          \/ AppPostBook(t)
          \/ AppGetBookings(t)

SpecApp == InitApp /\ [][NextApp]_vars

---------------------------------------------------------------------------
(* Vocabulary of the properties *)

Max(a, b) == IF a >= b THEN a ELSE b

ClassIds == 1..Len(classes)

Slots(c) == classes[c].available_slots

BookingsOf(c) == {i \in 1..Len(bookings) : bookings[i].class_id = c}

BookedUsers(c) == {bookings[i].user_id : i \in BookingsOf(c)}

InFlightBook(t) == req[t].kind = "book" /\ req[t].pc \notin {"idle", "done"}

(* a booking request of an authenticated user that has been answered *)
Answered(t) == req[t].kind = "book" /\ req[t].pc = "done" /\ req[t].user # 0

IsPast(c) == Before(normalize_to_ist(classes[c].date_time), now_ist)

ClassNotFound == Response(404, "Class not found")
PastClass == Response(400, "Cannot book a past class")
NoSlotsAvailable == Response(409, "No available slots")
AlreadyBooked == Response(409, "Already booked for this class")
Created == Response(201, "")

---------------------------------------------------------------------------
(* C1: once no reserve call is in service, every class has                *)
(* available_slots = max(0, initial capacity - successful reservations),  *)
(* and never more bookings than its initial capacity.                     *)
C1_SlotsAccounted ==
    (\A t \in Threads : ~InFlightBook(t)) =>
        \A c \in ClassIds :
            /\ Slots(c) = Max(0, capacity[c] - Cardinality(BookingsOf(c)))
            /\ Cardinality(BookingsOf(c)) <= capacity[c]

(* C2: two distinct users reserving the only slot of a future class, the  *)
(* class having no other reservation: exactly one call answers 201, the   *)
(* other NoSlotsAvailable, and available_slots ends 0.                    *)
C2_OneWinner ==
    \A t1, t2 \in Threads :
        LET c == req[t1].body.class_id
        IN  ( /\ t1 # t2
              /\ Answered(t1) /\ Answered(t2)
              /\ req[t2].body.class_id = c
              /\ req[t1].user # req[t2].user
              /\ c \in ClassIds
              /\ req[t1].resp # ClassNotFound /\ req[t2].resp # ClassNotFound
              /\ capacity[c] = 1
              /\ ~IsPast(c)
              /\ BookingsOf(c) \subseteq {req[t1].out, req[t2].out} )
            => /\ {req[t1].resp, req[t2].resp} = {Created, NoSlotsAvailable}
               /\ Slots(c) = 0

(* C3: no two booking rows share (user_id, class_id). *)
C3_UniqueBooking ==
    \A i, j \in 1..Len(bookings) :
        (bookings[i].user_id = bookings[j].user_id
         /\ bookings[i].class_id = bookings[j].class_id) => i = j

(* C3 witness: a second INSERT of the same pair was attempted and refused *)
C3_Witness ==
    \E t \in Threads :
        /\ Answered(t)
        /\ req[t].resp.status = 500
        /\ HasBooking(req[t].user, req[t].body.class_id)

(* C4: every class keeps 0 <= available_slots <= its capacity at creation, *)
(* and no step increases a class's available_slots.                        *)
C4_SlotsOnlyDecrease ==
    [][ /\ \A c \in 1..Len(classes') :
              0 <= classes'[c].available_slots
              /\ classes'[c].available_slots <= capacity'[c]
        /\ \A c \in ClassIds :
              classes'[c].available_slots <= classes[c].available_slots ]_vars

(* the answer a reserve call of user u gets when it runs alone on a future *)
(* class with the given slots and booked users                             *)
SeqAnswer(u, slots, booked) ==
    IF slots <= 0 THEN NoSlotsAvailable
    ELSE IF u \in booked THEN AlreadyBooked
    ELSE Created

RECURSIVE SomeOrder(_, _, _, _)
(* some order of the calls S, run one after another from (slots, booked), *)
(* gives every call the status it was answered with and ends in the       *)
(* store's state of class c                                               *)
SomeOrder(S, c, slots, booked) ==
    IF S = {}
    THEN /\ slots = Slots(c)
         /\ booked = BookedUsers(c)
         /\ Cardinality(BookingsOf(c)) = Cardinality(booked)
    ELSE \E t \in S :
            LET a == SeqAnswer(req[t].user, slots, booked)
            IN  /\ a.status = req[t].resp.status
                /\ IF a = Created
                   THEN SomeOrder(S \ {t}, c, slots - 1, booked \cup {req[t].user})
                   ELSE SomeOrder(S \ {t}, c, slots, booked)

CallsOn(c) ==
    {t \in Threads : Answered(t) /\ req[t].body.class_id = c /\ req[t].resp # ClassNotFound}

(* C5: the answered reserve calls on a future class whose reservations all *)
(* come from these calls have the answers and the final state of some      *)
(* one-after-another execution of the same calls.                          *)
C5_Linearizable ==
    \A c \in ClassIds :
        (~IsPast(c) /\ BookingsOf(c) \subseteq {req[t].out : t \in CallsOn(c)})
            => SomeOrder(CallsOn(c), c, capacity[c], {})

(* a reserve call, answered in serial service on a class that is still   *)
(* not past, of a user who held a reservation of the class before it     *)
C6_Repeat(t) ==
    LET c == req[t].body.class_id
    IN  /\ Answered(t)
        /\ c \in ClassIds
        /\ ~IsPast(c)
        /\ req[t].out = 0
        /\ req[t].user \in BookedUsers(c)

(* the class has given one slot for each of its reservations, and the *)
(* user holds one of them                                             *)
C6_DecrementedOnce(t) ==
    LET c == req[t].body.class_id
    IN  /\ Slots(c) = capacity[c] - Cardinality(BookingsOf(c))
        /\ Cardinality({i \in BookingsOf(c) : bookings[i].user_id = req[t].user}) = 1

(* C6: in serial service, the second reserve call of a user for a future *)
(* class is answered AlreadyBooked, and available_slots has been         *)
(* decremented once for the user.                                        *)
C6_SecondCallAlreadyBooked ==
    \A t \in Threads :
        C6_Repeat(t) => req[t].resp = AlreadyBooked /\ C6_DecrementedOnce(t)

(* C6 as amended: the second call is answered 409, AlreadyBooked when the *)
(* first call left a free slot and NoSlotsAvailable when it took the last *)
(* one, and available_slots has been decremented once for the user.       *)
C6_SecondCallConflict ==
    \A t \in Threads :
        C6_Repeat(t) =>
            /\ req[t].resp = IF Slots(req[t].body.class_id) = 0
                             THEN NoSlotsAvailable ELSE AlreadyBooked
            /\ C6_DecrementedOnce(t)

(* C6 witness: the second call on a class created with the largest *)
(* capacity, one slot taken                                         *)
C6_Witness ==
    \E t \in Threads :
        /\ C6_Repeat(t)
        /\ capacity[req[t].body.class_id] = MAX_SLOTS
        /\ Slots(req[t].body.class_id) = MAX_SLOTS - 1
        /\ req[t].resp = AlreadyBooked

(* the first failing check of a reserve call on the store as it stands *)
Verdict(t) ==
    LET c == req[t].body.class_id
    IN  IF c \notin ClassIds THEN ClassNotFound
        ELSE IF IsPast(c) THEN PastClass
        ELSE IF Slots(c) <= 0 THEN NoSlotsAvailable
        ELSE IF \E i \in BookingsOf(c) : bookings[i].user_id = req[t].user THEN AlreadyBooked
        ELSE Created

(* C7: in serial service, a reserve call is answered with the first       *)
(* failing check in the order class-exists, not-past, slots-available,    *)
(* not-already-booked, and succeeds only if none fails.                   *)
C7_FirstFailingCheck ==
    [][ \A t \in Threads :
            (InFlightBook(t) /\ req'[t].pc = "done") => req'[t].resp = Verdict(t) ]_vars

(* C7 witness: a call answered PastClass on a class that is also full *)
C7_Witness ==
    \E t \in Threads :
        /\ Answered(t)
        /\ req[t].resp = PastClass
        /\ Slots(req[t].body.class_id) <= 0

UnknownClassCall(t) ==
    /\ req[t].kind = "book"
    /\ req[t].pc = "done"
    /\ req[t].body.class_id \notin ClassIds

WellFormed(token) ==
    token.scheme = "bearer" /\ token.sig /\ token.sub \in 1..Len(users)

(* C8: a reserve request for a class id that is not in the store is       *)
(* answered 404 whatever token it presents.                               *)
C8_NotFoundWhateverToken ==
    \A t \in Threads : UnknownClassCall(t) => req[t].resp.status = 404

(* C8 as amended: such a request is answered 404 when its token resolves  *)
(* to a user, and 401 when the token is missing, not bearer, malformed,   *)
(* expired or of an unknown subject.                                      *)
C8_NotFoundWhenAuthenticated ==
    \A t \in Threads :
        UnknownClassCall(t) =>
            \/ req[t].resp = ClassNotFound /\ WellFormed(req[t].token)
            \/ /\ req[t].resp.status = 401
               /\ ~WellFormed(req[t].token) \/ req[t].token.exp < now

(* C8 witness: one such request answered 404, another answered 401 *)
C8_Witness ==
    \E t1, t2 \in Threads :
        /\ UnknownClassCall(t1) /\ req[t1].resp = ClassNotFound
        /\ UnknownClassCall(t2) /\ req[t2].resp.status = 401

(* C9: every reserve call of an authenticated user that creates no        *)
(* booking is answered ClassNotFound, PastClass, NoSlotsAvailable or      *)
(* AlreadyBooked.                                                         *)
C9_BusinessFailuresOnly ==
    \A t \in Threads :
        (Answered(t) /\ req[t].resp # Created) =>
            req[t].resp \in {ClassNotFound, PastClass, NoSlotsAvailable, AlreadyBooked}

(* C10: createClass of a time whose normalized value is before now is     *)
(* answered 400 and adds no class row; otherwise it adds exactly one row, *)
(* whose available_slots is the requested capacity.                       *)
C10_CreateClass ==
    [][ \A t \in Threads :
            (req[t].pc = "create" /\ req'[t].pc = "done") =>
                IF Before(normalize_to_ist(req[t].body.date_time), now_ist)
                THEN /\ req'[t].resp.status = 400
                     /\ classes' = classes
                ELSE /\ req'[t].resp.status = 201
                     /\ Len(classes') = Len(classes) + 1
                     /\ \A c \in ClassIds : classes'[c] = classes[c]
                     /\ classes'[Len(classes')].available_slots = req[t].body.available_slots
      ]_vars

(* C10 witness: one createClass refused for a past time, another stored *)
C10_Witness ==
    \E t1, t2 \in Threads :
        /\ req[t1].kind = "create_class" /\ req[t1].resp.status = 400
        /\ req[t2].kind = "create_class" /\ req[t2].resp.status = 201
        /\ req[t2].out \in ClassIds
        /\ classes[req[t2].out].available_slots = req[t2].body.available_slots

---------------------------------------------------------------------------
(* Properties of the identity resolver and of the listing *)

Stepped(t) == req'[t] # req[t]

(* the credential is missing, not bearer, does not decode under the key, *)
(* is expired, or names a subject that is not a stored user              *)
BadToken(token) ==
    \/ token.scheme = "none"
    \/ token.scheme # "bearer"
    \/ ~token.sig
    \/ token.exp < now
    \/ token.sub \notin 1..Len(users)

(* C13: createClass, reserve and listMyBookings presented with a missing, *)
(* non-bearer, malformed, expired or unknown-subject token are answered   *)
(* 401 on arrival and the store is left as it is.                         *)
C13_Unauthenticated ==
    [][ \A t \in Threads :
            ( /\ Free(t) /\ Stepped(t)
              /\ req'[t].kind \in {"create_class", "book", "list"}
              /\ BadToken(req'[t].token) )
            => /\ req'[t].pc = "done"
               /\ req'[t].resp.status = 401
               /\ req'[t].out = 0 /\ req'[t].items = <<>>
               /\ <<users, classes, bookings>>' = <<users, classes, bookings>>
      ]_vars

(* C13 witness: a reserve request with an expired token refused while the *)
(* class it names is not past and has a free slot                         *)
C13_Witness ==
    \E t \in Threads :
        /\ req[t].kind = "book" /\ req[t].pc = "done"
        /\ req[t].resp.status = 401
        /\ req[t].token.scheme = "bearer" /\ req[t].token.sig
        /\ req[t].token.exp < now
        /\ req[t].body.class_id \in ClassIds
        /\ ~IsPast(req[t].body.class_id)
        /\ Slots(req[t].body.class_id) > 0
        /\ bookings = <<>>

(* C14: the listing of user u returns each booking of u once and no other *)
(* booking, in an order of non-increasing creation time, and changes      *)
(* nothing in the store.                                                  *)
C14_ListMyBookings ==
    [][ \A t \in Threads :
            (req[t].pc = "list" /\ Stepped(t)) =>
                LET items == req'[t].items
                IN  /\ req'[t].resp.status = 200
                    /\ {items[i] : i \in 1..Len(items)}
                          = {b \in 1..Len(bookings) : bookings[b].user_id = req[t].user}
                    /\ \A i, j \in 1..Len(items) : items[i] = items[j] => i = j
                    /\ \A i \in 1..Len(items) - 1 :
                          bookings[items[i]].created_at >= bookings[items[i + 1]].created_at
                    /\ <<users, classes, bookings>>' = <<users, classes, bookings>>
      ]_vars

(* C14 witness: a listing of two bookings made at different times, the   *)
(* later one first, while another user holds bookings too                *)
C14_Witness ==
    \E t \in Threads :
        /\ req[t].kind = "list" /\ req[t].pc = "done"
        /\ Len(req[t].items) = 2
        /\ bookings[req[t].items[1]].created_at > bookings[req[t].items[2]].created_at
        /\ req[t].items[1] > req[t].items[2]
        /\ \E b \in 1..Len(bookings) : bookings[b].user_id # req[t].user

---------------------------------------------------------------------------
(* Properties of app/utils/time.py *)

(* C15: normalize_to_ist applied twice gives what it gives applied once,  *)
(* for every scheduled time a request carries, with or without offset,    *)
(* and for every scheduled time read back from the store.                 *)
C15_NormalizeIdempotent ==
    /\ \A t \in Threads :
          LET dt == req[t].body.date_time
          IN  req[t].kind = "create_class"
                 => normalize_to_ist(normalize_to_ist(dt)) = normalize_to_ist(dt)
    /\ \A c \in ClassIds :
          LET dt == classes[c].date_time
          IN  normalize_to_ist(normalize_to_ist(dt)) = normalize_to_ist(dt)

(* C15 witness: a class created from a time written in a zone other than *)
(* IST, which normalize_to_ist had to convert                            *)
C15_Witness ==
    \E t \in Threads :
        /\ req[t].kind = "create_class" /\ req[t].resp.status = 201
        /\ req[t].body.date_time.tz \notin {NAIVE, IST}
        /\ normalize_to_ist(req[t].body.date_time) # req[t].body.date_time
        /\ classes[req[t].out].date_time.wall # req[t].body.date_time.wall

(* C22: for every scheduled time a createClass request carries, the       *)
(* normalized value is in IST; it has the clock fields of the input when  *)
(* the input has no offset, and otherwise the clock fields of the same    *)
(* instant (input clock minus input offset) read in IST; the class is     *)
(* stored with the clock fields of the normalized value.                  *)
C22_NaiveMeansLocal ==
    \A t \in Threads :
        LET dt == req[t].body.date_time
            n == normalize_to_ist(dt)
        IN  req[t].kind = "create_class" =>
                /\ n.tz = IST
                /\ dt.tz = NAIVE => n.wall = dt.wall
                /\ dt.tz # NAIVE => n.wall - IST_OFFSET = dt.wall - dt.tz[1]
                /\ (req[t].pc = "done" /\ req[t].resp.status = 201) =>
                      /\ req[t].out \in ClassIds
                      /\ classes[req[t].out].date_time.wall = n.wall

(* C22 witness: a class created from a time without offset is stored with *)
(* the clock fields it was given                                          *)
C22_Witness ==
    \E t \in Threads :
        /\ req[t].kind = "create_class" /\ req[t].resp.status = 201
        /\ req[t].body.date_time.tz = NAIVE
        /\ classes[req[t].out].date_time.wall = req[t].body.date_time.wall
        /\ req[t].body.date_time.wall > IST_OFFSET

(* the instant a scheduled time denotes after normalize_to_ist *)
ScheduledInstant(dt) == Instant(normalize_to_ist(dt))

(* C16: a time is past iff its normalized value is strictly before the    *)
(* clock reading: createClass refuses exactly the times strictly before   *)
(* now and stores the instant it was given, reserve answers PastClass     *)
(* exactly when the stored time is strictly before now, the clock reading *)
(* itself is not past and the reading one unit earlier is.                *)
C16_StrictlyBefore ==
    [][ /\ \A dt \in TimeInputs : is_past_in_ist(normalize_to_ist(dt)) <=> ScheduledInstant(dt) < now
        /\ ~is_past_in_ist(now_ist)
        /\ is_past_in_ist(DateTime(now_ist.wall - 1, IST))
        /\ \A t \in Threads :
              /\ (req[t].pc = "create" /\ Stepped(t)) =>
                    /\ req'[t].resp.status = 400 <=> ScheduledInstant(req[t].body.date_time) < now
                    /\ req'[t].resp.status = 201 <=> ScheduledInstant(req[t].body.date_time) >= now
                    /\ req'[t].resp.status = 201 =>
                          ScheduledInstant(classes'[req'[t].out].date_time)
                             = ScheduledInstant(req[t].body.date_time)
              /\ (req[t].pc = "check" /\ Stepped(t)) =>
                    (req'[t].resp = PastClass
                        <=> ScheduledInstant(classes[req[t].body.class_id].date_time) < now)
      ]_vars

(* C16 witness: a class scheduled at the instant the clock starts from,  *)
(* which only a request served at that very instant can create or book,  *)
(* has been created and booked                                           *)
C16_Witness ==
    \E t \in Threads :
        /\ Answered(t) /\ req[t].resp = Created
        /\ ScheduledInstant(classes[req[t].body.class_id].date_time) = 0
        /\ now = 0
        /\ bookings[req[t].out].created_at = 0

---------------------------------------------------------------------------
(* Properties of the reserve transaction and of the clock *)

(* this step adds a booking row of class c *)
RowAdded(c) ==
    /\ Len(bookings') = Len(bookings) + 1
    /\ bookings'[Len(bookings')].class_id = c

(* this step changes the row of class c or the bookings of class c *)
ClassTouched(c) ==
    \/ classes'[c] # classes[c]
    \/ bookings' # bookings /\ (Len(bookings') <= Len(bookings) \/ RowAdded(c))

(* C17: a reserve call that fails, at a check or at commit, leaves the    *)
(* classes and the bookings as they were, and a step shows a new booking  *)
(* row of a class exactly when it shows the class's available_slots one   *)
(* lower; no other step changes either.                                   *)
C17_AllOrNothing ==
    [][ /\ \A t \in Threads :
              (InFlightBook(t) /\ req'[t].pc = "done" /\ req'[t].resp # Created)
                  => <<classes, bookings>>' = <<classes, bookings>>
        /\ \A c \in ClassIds :
              /\ RowAdded(c) <=> classes'[c].available_slots = classes[c].available_slots - 1
              /\ ~RowAdded(c) => classes'[c] = classes[c]
        /\ bookings' # bookings => \E c \in ClassIds : RowAdded(c)
      ]_vars

(* C18: once the clock has passed the scheduled time of a class, every    *)
(* reserve call that comes to the past check is answered PastClass and    *)
(* no step changes the class's available_slots or its bookings.           *)
C18_PastClassFrozen ==
    [][ /\ \A t \in Threads :
              (req[t].pc = "check" /\ Stepped(t) /\ IsPast(req[t].body.class_id))
                  => req'[t].pc = "done" /\ req'[t].resp = PastClass
        /\ \A c \in ClassIds : IsPast(c) => ~ClassTouched(c)
      ]_vars

(* C18 as amended: once the clock has passed the scheduled time of a      *)
(* class, every reserve call that comes to the past check, so every call  *)
(* received from then on, is answered PastClass; the class's              *)
(* available_slots and bookings change after that time only by the commit *)
(* of a call that had passed the check before.                            *)
C18_PastClassRefused ==
    [][ /\ \A t \in Threads :
              (req[t].pc = "check" /\ Stepped(t) /\ IsPast(req[t].body.class_id))
                  => req'[t].pc = "done" /\ req'[t].resp = PastClass
        /\ \A t \in Threads :
              (req'[t].pc \in {"existing", "commit"} /\ req[t].pc \notin {"existing", "commit"})
                  => ~IsPast(req[t].body.class_id)
        /\ \A c \in ClassIds :
              (IsPast(c) /\ ClassTouched(c))
                  => \E t \in Threads :
                        /\ req[t].pc = "commit" /\ req[t].body.class_id = c
                        /\ Stepped(t) /\ req'[t].resp = Created
      ]_vars

(* C18 witness: a call refused as past on a class that has a free slot    *)
(* and no booking of the caller, the class holding a booking committed    *)
(* after its scheduled time                                               *)
C18_Witness ==
    \E t \in Threads :
        LET c == req[t].body.class_id
        IN  /\ Answered(t) /\ req[t].resp = PastClass
            /\ Slots(c) > 0
            /\ req[t].user \notin BookedUsers(c)
            /\ \E b \in BookingsOf(c) :
                  bookings[b].created_at > Instant(normalize_to_ist(classes[c].date_time))

(* C21: a booking is stored under the user the request's token resolves  *)
(* to, with the attendee address the request carries; the duplicate check *)
(* answers AlreadyBooked exactly when that user holds a booking of the    *)
(* class, whatever the attendee addresses; and no user holds two bookings *)
(* of a class.                                                            *)
C21_KeyedOnUser ==
    [][ /\ \A t \in Threads :
              /\ (req[t].pc = "commit" /\ Stepped(t) /\ req'[t].resp = Created) =>
                    /\ req'[t].out = Len(bookings')
                    /\ bookings'[req'[t].out].user_id = req[t].token.sub
                    /\ current_user(req[t].token).user = req[t].token.sub
                    /\ bookings'[req'[t].out].class_id = req[t].body.class_id
                    /\ bookings'[req'[t].out].client_email = req[t].body.client_email
              /\ (req[t].pc = "existing" /\ Stepped(t)) =>
                    (req'[t].resp = AlreadyBooked
                        <=> \E b \in BookingsOf(req[t].body.class_id) :
                               bookings[b].user_id = req[t].token.sub)
        /\ \A a, b \in 1..Len(bookings') :
              (bookings'[a].user_id = bookings'[b].user_id
               /\ bookings'[a].class_id = bookings'[b].class_id) => a = b
      ]_vars

(* C21 witness: two users hold bookings of the class for one attendee    *)
(* address, and a further call of one of them for another address has    *)
(* been answered AlreadyBooked                                           *)
C21_Witness ==
    \E t \in Threads :
        LET c == req[t].body.class_id
        IN  /\ Answered(t) /\ req[t].resp = AlreadyBooked
            /\ \E b1, b2 \in BookingsOf(c) :
                  /\ bookings[b1].user_id = req[t].user
                  /\ bookings[b2].user_id # req[t].user
                  /\ bookings[b1].client_email = bookings[b2].client_email
                  /\ bookings[b1].client_email # req[t].body.client_email

---------------------------------------------------------------------------
(* Properties of the application of app/main.py *)

(* C11: a signup whose address belongs to a stored user is answered 409   *)
(* and leaves the users table as it is; no two stored users share an      *)
(* address.                                                               *)
C11_DuplicateSignup ==
    [][ /\ \A t \in Threads :
              (req[t].pc = "lookup" /\ Stepped(t) /\ UsersByEmail(req[t].body.email) # {})
                  => /\ req'[t].pc = "done"
                     /\ req'[t].resp = Response(409, "Email already registered")
                     /\ users' = users
        /\ \A i, j \in 1..Len(users') : users'[i].email = users'[j].email => i = j
      ]_vars

(* C11 witness: a signup refused for an address stored with another *)
(* password, the stored row still carrying its own digest           *)
C11_Witness ==
    \E t \in Threads :
        /\ req[t].kind = "signup" /\ req[t].pc = "done"
        /\ req[t].resp.status = 409
        /\ \E i \in UsersByEmail(req[t].body.email) :
              users[i].hashed_password # get_password_hash(req[t].body.password)

(* C12: a successful signup stores the row of its address and password    *)
(* under the id it returns, and every login with the address and password *)
(* of a stored row is answered 200 with a credential that the identity    *)
(* resolver resolves to the id of that row.                               *)
C12_LoginAfterSignup ==
    [][ \A t \in Threads :
            /\ (req[t].pc = "insert" /\ Stepped(t) /\ req'[t].resp.status = 201)
                  => /\ req'[t].out = Len(users')
                     /\ users'[req'[t].out] = User(req[t].body.email, req[t].body.password)
                     /\ \A i \in 1..Len(users) : users'[i] = users[i]
            /\ (req[t].pc = "login" /\ Stepped(t))
                  => \A i \in 1..Len(users) :
                        users[i] = User(req[t].body.email, req[t].body.password)
                           => /\ req'[t].resp.status = 200
                              /\ current_user(req'[t].access_token).user = i
      ]_vars

(* C12 witness: the second user has signed up and a login with the same *)
(* address and password has returned a credential of subject 2          *)
C12_Witness ==
    \E t1, t2 \in Threads :
        /\ req[t1].kind = "signup" /\ req[t1].resp.status = 201 /\ req[t1].out = NumUsers
        /\ req[t2].kind = "login" /\ req[t2].resp.status = 200
        /\ req[t2].body.email = req[t1].body.email
        /\ req[t2].body.password = req[t1].body.password
        /\ req[t2].access_token.sub = NumUsers
        /\ current_user(req[t2].access_token).user = NumUsers

(* C19: of two answered signups of one address, one of which created the  *)
(* user, the other is answered 409.                                       *)
C19_OneSignupWins ==
    \A t1, t2 \in Threads :
        ( /\ t1 # t2
          /\ req[t1].kind = "signup" /\ req[t1].pc = "done"
          /\ req[t2].kind = "signup" /\ req[t2].pc = "done"
          /\ req[t1].body.email = req[t2].body.email
          /\ req[t1].resp.status = 201 )
        => req[t2].resp.status = 409

(* C20: a reserve request of a resolved user for a future class with a    *)
(* free slot that the user has not booked is taken into service by the    *)
(* application: it is not refused as a request for an unknown route.      *)
C20_ReserveExposed ==
    [][ \A t \in Threads :
            LET c == req'[t].body.class_id
                u == current_user(req'[t].token).user
            IN  ( /\ Free(t) /\ Stepped(t)
                  /\ req'[t].kind = "book"
                  /\ u # 0
                  /\ c \in ClassIds
                  /\ ~IsPast(c) /\ Slots(c) > 0 /\ u \notin BookedUsers(c) )
                => req'[t].resp # NotRouted
      ]_vars

====
